---- MODULE Spec2Model ----
(***************************************************************************)
(* Model of the acquisition core of railway-opendata:                      *)
(*   src/scraper/api.py    ViaggiaTrenoAPI (request, retry, decoding)      *)
(*   src/scraper/train.py  Train (construction and fetch())                *)
(*                                                                         *)
(* Python values are represented as follows.                               *)
(*   None / JSON null      the empty tuple  <<>>                           *)
(*   a present value v     the 1-tuple      <<v>>   (for optional fields)  *)
(*   str used with upper() and strip(), or searched for a substring        *)
(*                         a tuple of one-character strings                *)
(*   str only compared     a TLA+ string                                   *)
(*   a JSON object (dict)  a record whose DOMAIN is the set of its keys    *)
(*   a call's outcome      [raised, value]: the exception's name or the    *)
(*                         value returned, the other one None              *)
(***************************************************************************)
EXTENDS Integers, Sequences, FiniteSets, TLC

VARIABLES
    train,      \* the Train instance (train.py:36-48)
    last,       \* how the last operation on the train ended
    call,       \* one ViaggiaTrenoAPI._raw_request call in progress
    pool,       \* Train instances fetched by concurrent workers
    session     \* the shared requests session and the calls through it

vars == <<train, last, call, pool, session>>

(***************************************************************************)
(* Bounds                                                                  *)
(***************************************************************************)
MaxCatLen == 1      \* longest category string a payload carries
MaxTextLen == 5     \* longest response body of the request specification

(***************************************************************************)
(* Optional values                                                         *)
(***************************************************************************)
None == <<>>

Some(v) == <<v>>

Optional(S) == {None} \cup {Some(v) : v \in S}

\* all tuples over S of length at most n
RECURSIVE SeqsUpTo(_, _)
SeqsUpTo(S, n) ==
    IF n = 0 THEN {<<>>}
    ELSE LET shorter == SeqsUpTo(S, n - 1)
         IN  shorter \cup {Append(s, c) : s \in {q \in shorter : Len(q) = n - 1}, c \in S}

(***************************************************************************)
(* str.upper() and str.strip() on the characters the model uses            *)
(***************************************************************************)
CatChars == {"r", " "}

\* the characters of a listing's categoriaDescrizione
ListingChars == {"I", " "}

UpperChar(c) == IF c = "r" THEN "R" ELSE c

RECURSIVE upper(_)
upper(s) == IF s = <<>> THEN <<>> ELSE <<UpperChar(Head(s))>> \o upper(Tail(s))

IsSpace(c) == c = " "

RECURSIVE lstrip(_)
lstrip(s) == IF s # <<>> /\ IsSpace(Head(s)) THEN lstrip(Tail(s)) ELSE s

RECURSIVE rstrip(_)
rstrip(s) ==
    IF s # <<>> /\ IsSpace(s[Len(s)]) THEN rstrip(SubSeq(s, 1, Len(s) - 1)) ELSE s

strip(s) == rstrip(lstrip(s))

\* `needle in text` for Python strings
Contains(text, needle) ==
    \E i \in 0..(Len(text) - Len(needle)) :
        SubSeq(text, i + 1, i + Len(needle)) = needle

(***************************************************************************)
(* Station directory (src/scraper/station.py is not part of the sources;   *)
(* by_code is modelled from its interface: it resolves a known code to a   *)
(* Station and fails with BadRequestException for an unknown one, the      *)
(* exception train.py:98 expects from it).                                 *)
(***************************************************************************)
KnownStations == {"S0", "S1"}

Returned(v) == [raised |-> None, value |-> Some(v)]

Raised(exc) == [raised |-> Some(exc), value |-> None]

by_code(code) ==
    IF code \in KnownStations
    THEN Returned([code |-> code])
    ELSE Raised("BadRequestException")

(***************************************************************************)
(* ViaggiaTrenoAPI (api.py)                                                *)
(***************************************************************************)
BASE_URL == "http://www.viaggiatreno.it/infomobilita/resteasy/viaggiatreno/"

ErrorMarker == <<"E", "r", "r", "o", "r">>

\* api.py:65-68, the URL: the method and the parameters' str(), joined by "/"
RequestUrl(method, parameters) == <<BASE_URL, method>> \o parameters

\* api.py:65-68, the response session.get returns for the server's answer
Response(url, answer) ==
    [url |-> url, status_code |-> answer.status_code, text |-> answer.text]

\* NotOk with `and` in the place of the `or` of api.py:70
NotOk_And(response) ==
    response.status_code # 200 /\ Contains(response.text.chars, ErrorMarker)

\* api.py:70, the condition under which the response is rejected
NotOk(response) ==
    response.status_code # 200 \/ Contains(response.text.chars, ErrorMarker)

\* api.py:70-77, the part of _raw_request after session.get has returned
_raw_request(response) ==
    IF NotOk(response)
    THEN [raised |-> Some("BadRequestException"), value |-> None,
          url |-> response.url, status_code |-> response.status_code,
          response |-> response.text]
    ELSE [raised |-> None, value |-> Some(response.text)]

\* api.py:89, json.loads: the document the text denotes, or JSONDecodeError
_decode_json(string) ==
    IF string.json = None THEN Raised("JSONDecodeError")
    ELSE Returned(string.json[1])

\* api.py:102-105; datetime.fromtimestamp(time / 1000, tz=TIMEZONE)
_to_datetime(time) ==
    IF time = None \/ time = Some(0) THEN None
    ELSE Some([seconds |-> time[1] \div 1000,
               microsecond |-> (time[1] % 1000) * 1000,
               tzinfo |-> "TIMEZONE"])

(***************************************************************************)
(* The session's retry policy (api.py:36-48).  session.get runs the        *)
(* request through urllib3's Retry: each failed attempt replaces the       *)
(* call's Retry object by one with decremented counters, and the call      *)
(* gives up when a counter drops below zero.                               *)
(***************************************************************************)
RetryTotal == 10

RetryRead == 5

RetryStatus == 10

status_forcelist == {403, 500, 502, 503, 504}

\* the Retry object a call starts with
max_retries == [total |-> RetryTotal, read |-> RetryRead, status |-> RetryStatus]

\* Retry.increment for a response whose status is in status_forcelist
IncrementStatus(retries) ==
    [retries EXCEPT !.total = @ - 1, !.status = @ - 1]

\* Retry.increment for a read error (connection reset, read timeout)
IncrementRead(retries) ==
    [retries EXCEPT !.total = @ - 1, !.read = @ - 1]

\* is_exhausted giving up one failure too late
is_exhausted_Late(retries) ==
    retries.total < -1 \/ retries.read < -1 \/ retries.status < -1

\* Retry.is_exhausted
is_exhausted(retries) ==
    retries.total < 0 \/ retries.read < 0 \/ retries.status < 0

(***************************************************************************)
(* Train (train.py)                                                        *)
(***************************************************************************)
\* train.py:36-48, Train.__init__
__init__(number, origin) ==
    [number |-> number, origin |-> origin, destination |-> None,
     category |-> None, departed |-> None, cancelled |-> None,
     delay |-> None, last_detection_place |-> None,
     last_detection_time |-> None, phantom |-> FALSE]

\* _from_station_departures_arrivals without the `not` of train.py:66
_from_station_departures_arrivals_NoNot(train_data) ==
    LET origin == by_code(train_data.codOrigine)
    IN  IF origin.raised # None THEN Raised(origin.raised[1])
        ELSE Returned(
            [__init__(train_data.numeroTreno, origin.value[1]) EXCEPT
                !.category = Some(strip(upper(train_data.categoriaDescrizione))),
                !.departed = Some(train_data.nonPartito),
                !.cancelled = Some(train_data.provvedimento # 0)])

\* train.py:61-68; by_code's failure on codOrigine propagates (no train)
_from_station_departures_arrivals(train_data) ==
    LET origin == by_code(train_data.codOrigine)
    IN  IF origin.raised # None THEN Raised(origin.raised[1])
        ELSE Returned(
            [__init__(train_data.numeroTreno, origin.value[1]) EXCEPT
                !.category = Some(strip(upper(train_data.categoriaDescrizione))),
                !.departed = Some(~train_data.nonPartito),
                !.cancelled = Some(train_data.provvedimento # 0)])

\* Python truthiness of a str | None and of a bool | None attribute
TruthyStr(v) == v # None /\ v[1] # <<>>

TruthyBool(v) == v # None /\ v[1]

\* the state of a fetch() in progress: the train so far, the exception that
\* ended it (None while running), and how the destination lookup went
Running(t, lookup) == [train |-> t, raised |-> None, lookup |-> lookup]

Failed(r, exc) == [r EXCEPT !.raised = Some(exc)]

\* train_data[key] on a dict: KeyError when the key is absent
HasKey(train_data, key) == key \in DOMAIN train_data

\* SetDestination without the try / except of train.py:96-100
SetDestination_Uncaught(r, train_data) ==
    IF ~HasKey(train_data, "idDestinazione") THEN Failed(r, "KeyError")
    ELSE LET station == by_code(train_data.idDestinazione)
         IN  IF station.raised # None
             THEN Failed([r EXCEPT !.lookup = "failed"], station.raised[1])
             ELSE [r EXCEPT !.train.destination = station.value,
                            !.lookup = "ok"]

\* SetDestination assigning the resolved station to origin
SetDestination_IntoOrigin(r, train_data) ==
    IF ~HasKey(train_data, "idDestinazione") THEN Failed(r, "KeyError")
    ELSE LET station == by_code(train_data.idDestinazione)
         IN  IF station.raised = Some("BadRequestException")
             THEN [r EXCEPT !.lookup = "failed"]
             ELSE [r EXCEPT !.train.origin = station.value[1],
                            !.lookup = "ok"]

\* SetDestination clearing the destination when the lookup fails
SetDestination_Reset(r, train_data) ==
    IF ~HasKey(train_data, "idDestinazione") THEN Failed(r, "KeyError")
    ELSE LET station == by_code(train_data.idDestinazione)
         IN  IF station.raised = Some("BadRequestException")
             THEN [r EXCEPT !.train.destination = None, !.lookup = "failed"]
             ELSE [r EXCEPT !.train.destination = station.value,
                            !.lookup = "ok"]

\* train.py:96-100
SetDestination(r, train_data) ==
    IF ~HasKey(train_data, "idDestinazione") THEN Failed(r, "KeyError")
    ELSE LET station == by_code(train_data.idDestinazione)
         IN  IF station.raised = Some("BadRequestException")
             THEN [r EXCEPT !.lookup = "failed"]
             ELSE [r EXCEPT !.train.destination = station.value,
                            !.lookup = "ok"]

\* SetCategory without the `not self.category` test of train.py:105
SetCategory_Overwrite(r, train_data) ==
    IF ~HasKey(train_data, "categoria") THEN Failed(r, "KeyError")
    ELSE IF train_data.categoria = None THEN Failed(r, "AttributeError")
    ELSE LET category == strip(upper(train_data.categoria[1]))
         IN  IF category # <<>> /\ Len(category) > 0
             THEN [r EXCEPT !.train.category = Some(category)]
             ELSE r

\* train.py:102-107
SetCategory(r, train_data) ==
    IF ~HasKey(train_data, "categoria") THEN Failed(r, "KeyError")
    ELSE IF train_data.categoria = None THEN Failed(r, "AttributeError")
    ELSE LET category == strip(upper(train_data.categoria[1]))
         IN  IF category # <<>> /\ Len(category) > 0 /\ ~TruthyStr(r.train.category)
             THEN [r EXCEPT !.train.category = Some(category)]
             ELSE r

\* train.py:109
SetDeparted(r, train_data) ==
    IF ~HasKey(train_data, "nonPartito") THEN Failed(r, "KeyError")
    ELSE [r EXCEPT !.train.departed = Some(~train_data.nonPartito)]

\* train.py:110
SetCancelled(r, train_data) ==
    IF ~HasKey(train_data, "provvedimento") THEN Failed(r, "KeyError")
    ELSE [r EXCEPT !.train.cancelled = Some(train_data.provvedimento # 0)]

\* SetDelay adding the payload's delay to the stored one
SetDelay_Accumulate(r, train_data) ==
    IF TruthyBool(r.train.departed)
    THEN IF ~HasKey(train_data, "ritardo") THEN Failed(r, "KeyError")
         ELSE [r EXCEPT !.train.delay =
                 IF @ = None THEN Some(train_data.ritardo)
                 ELSE Some(@[1] + train_data.ritardo)]
    ELSE [r EXCEPT !.train.delay = None]

\* train.py:112; the key is read only when self.departed is true
SetDelay(r, train_data) ==
    IF TruthyBool(r.train.departed)
    THEN IF ~HasKey(train_data, "ritardo") THEN Failed(r, "KeyError")
         ELSE [r EXCEPT !.train.delay = Some(train_data.ritardo)]
    ELSE [r EXCEPT !.train.delay = None]

\* SetLastDetectionPlace keeping the stored place on the sentinel
SetLastDetectionPlace_Keep(r, train_data) ==
    IF ~HasKey(train_data, "stazioneUltimoRilevamento") THEN Failed(r, "KeyError")
    ELSE IF train_data.stazioneUltimoRilevamento # "--"
    THEN [r EXCEPT !.train.last_detection_place =
            Some(train_data.stazioneUltimoRilevamento)]
    ELSE r

\* train.py:113-117
SetLastDetectionPlace(r, train_data) ==
    IF ~HasKey(train_data, "stazioneUltimoRilevamento") THEN Failed(r, "KeyError")
    ELSE [r EXCEPT !.train.last_detection_place =
            IF train_data.stazioneUltimoRilevamento # "--"
            THEN Some(train_data.stazioneUltimoRilevamento)
            ELSE None]

\* train.py:118-120
SetLastDetectionTime(r, train_data) ==
    IF ~HasKey(train_data, "oraUltimoRilevamento") THEN Failed(r, "KeyError")
    ELSE [r EXCEPT !.train.last_detection_time =
            _to_datetime(train_data.oraUltimoRilevamento)]

\* train.py:96-120, the statements after the payload has been decoded, each
\* run unless an exception has already ended the call
Merge(t, train_data) ==
    LET r1 == SetDestination(Running(t, "n/a"), train_data)
        r2 == IF r1.raised # None THEN r1 ELSE SetCategory(r1, train_data)
        r3 == IF r2.raised # None THEN r2 ELSE SetDeparted(r2, train_data)
        r4 == IF r3.raised # None THEN r3 ELSE SetCancelled(r3, train_data)
        r5 == IF r4.raised # None THEN r4 ELSE SetDelay(r4, train_data)
        r6 == IF r5.raised # None THEN r5
              ELSE SetLastDetectionPlace(r5, train_data)
    IN  IF r6.raised # None THEN r6 ELSE SetLastDetectionTime(r6, train_data)

\* train.py:90-94, the handler around _decode_json: only BadRequestException
\* is caught, any other exception leaves fetch()
Decode(t, raw_details) ==
    LET decoded == _decode_json(raw_details)
    IN  IF decoded.raised = Some("BadRequestException")
        THEN Running([t EXCEPT !.phantom = TRUE], "n/a")
        ELSE IF decoded.raised # None
        THEN Failed(Running(t, "n/a"), decoded.raised[1])
        ELSE Merge(t, decoded.value[1])

\* train.py:83-88, the URL of the detail request
FetchUrl(t) ==
    RequestUrl("andamentoTreno", <<t.origin.code, ToString(t.number), "midnight">>)

\* train.py:83-88, the request is made outside the try block, so what
\* session.get or _raw_request raises leaves fetch()
fetch(t, got) ==
    IF got.raised # None
    THEN Failed(Running(t, "n/a"), got.raised[1])
    ELSE LET raw_details == _raw_request(Response(FetchUrl(t), got.value[1]))
         IN  IF raw_details.raised # None
             THEN Failed(Running(t, "n/a"), raw_details.raised[1])
             ELSE Decode(t, raw_details.value[1])

(***************************************************************************)
(* Inputs                                                                  *)
(***************************************************************************)
\* records of the partenze / arrivi listing (train.py:62-67)
ListingRecords ==
    [numeroTreno : {100}, codOrigine : {"S0", "S9"},
     categoriaDescrizione : SeqsUpTo(ListingChars, MaxCatLen),
     nonPartito : BOOLEAN, provvedimento : {0, 1}]

\* andamentoTreno objects carrying every key fetch() reads (train.py:97-119)
PayloadKeys ==
    {"idDestinazione", "categoria", "nonPartito", "provvedimento", "ritardo",
     "stazioneUltimoRilevamento", "oraUltimoRilevamento"}

CompletePayloads ==
    [idDestinazione : {"S1", "S9"},
     categoria : Optional(SeqsUpTo(CatChars, MaxCatLen)),
     nonPartito : BOOLEAN, provvedimento : {0, 1}, ritardo : {0, 5},
     stazioneUltimoRilevamento : {"--", "ROMA"},
     oraUltimoRilevamento : Optional({86400000})]

\* a JSON object with one key left out
Without(train_data, key) ==
    [k \in DOMAIN train_data \ {key} |-> train_data[k]]

\* payloads of a train that has been detected on the line
DetectedPayloads ==
    {p \in CompletePayloads :
        /\ p.ritardo = 5 /\ p.stazioneUltimoRilevamento = "ROMA"
        /\ p.oraUltimoRilevamento # None}

\* the complete payloads, and those of a detected train with one key missing
Payloads ==
    CompletePayloads \cup
    {Without(p, key) : p \in DetectedPayloads, key \in PayloadKeys}

\* the payload of the bodies that fetch() does not get to decode
SamplePayload ==
    [idDestinazione |-> "S1", categoria |-> Some(<<"r">>), nonPartito |-> FALSE,
     provvedimento |-> 0, ritardo |-> 5, stazioneUltimoRilevamento |-> "ROMA",
     oraUltimoRilevamento |-> Some(86400000)]

\* a response body: the characters the marker search looks at, and the
\* document json.loads makes of the body (None: the body is not JSON).  The
\* documents are JSON objects.
FetchBodies ==
    {[chars |-> <<>>, json |-> j] : j \in Optional(Payloads)} \cup
    {[chars |-> ErrorMarker, json |-> j] : j \in {None, Some(SamplePayload)}}

\* what the server answers to the detail request
FetchAnswers ==
    {[status_code |-> 200, text |-> b] : b \in FetchBodies} \cup
    {[status_code |-> 204, text |-> [chars |-> <<>>, json |-> j]] :
        j \in {None, Some(SamplePayload)}}

\* what session.get hands to _raw_request inside fetch(): an answer whose
\* status is not retried, or the exception of an exhausted retry
SessionOutcomes ==
    {Returned(answer) : answer \in FetchAnswers} \cup
    {Raised(exc) : exc \in {"RetryError", "ConnectionError"}}

(***************************************************************************)
(* The life of one Train                                                   *)
(***************************************************************************)
Idle ==
    [pc |-> "idle", url |-> <<>>, retries |-> max_retries, attempts |-> 0,
     answer |-> None, returned |-> FALSE, result |-> None]

\* no worker pool
NoPool == [trains |-> <<>>, initial |-> <<>>, workers |-> <<>>]

\* the shared session with no call in it: its adapter holds the Retry object
NoSession == [max_retries |-> max_retries, calls |-> <<>>]

Constructed(op) ==
    [op |-> op, raised |-> None, request |-> "n/a", decode |-> "n/a",
     lookup |-> "n/a"]

\* how the request of a fetch() went: "error" (session.get raised),
\* "failed" (the response was rejected), "ok"
RequestOf(got) ==
    IF got.raised # None THEN "error"
    ELSE IF NotOk(got.value[1]) THEN "failed" ELSE "ok"

DecodeOf(got) ==
    IF RequestOf(got) # "ok" THEN "n/a"
    ELSE IF _decode_json(got.value[1].text).raised # None THEN "failed" ELSE "ok"

Init ==
    /\ \/ \E train_data \in ListingRecords :
            LET made == _from_station_departures_arrivals(train_data)
            IN  /\ made.raised = None
                /\ train = made.value[1]
                /\ last = Constructed("_from_station_departures_arrivals")
       \/ /\ train = __init__(100, by_code("S0").value[1])
          /\ last = Constructed("__init__")
    /\ call = Idle
    /\ pool = NoPool
    /\ session = NoSession

Fetch ==
    \E got \in SessionOutcomes :
        LET r == fetch(train, got)
        IN  /\ train' = r.train
            /\ last' = [op |-> "fetch", raised |-> r.raised,
                        request |-> RequestOf(got), decode |-> DecodeOf(got),
                        lookup |-> r.lookup]
            /\ UNCHANGED <<call, pool, session>>

Next == Fetch

Spec == Init /\ [][Next]_vars

(***************************************************************************)
(* Properties of Train.fetch()                                             *)
(***************************************************************************)
\* every attribute of the train except the phantom flag
Attributes(t) ==
    <<t.number, t.origin, t.destination, t.category, t.departed, t.cancelled,
      t.delay, t.last_detection_place, t.last_detection_time>>

\* the document of a response fetch() decodes, when it carries every key and
\* a string category
WellFormed(got) ==
    /\ RequestOf(got) = "ok"
    /\ DecodeOf(got) = "ok"
    /\ DOMAIN got.value[1].text.json[1] = PayloadKeys
    /\ got.value[1].text.json[1].categoria # None

PayloadOf(got) == got.value[1].text.json[1]

\* C1: when the detail request of fetch() fails (non-200 status, or 200 with
\* the error marker in the body), fetch() returns normally, phantom is true
\* afterwards and every other attribute is unchanged.
C1_RequestFailureAbsorbed ==
    [][(last'.op = "fetch" /\ last'.request = "failed")
        => /\ last'.raised = None
           /\ train'.phantom = TRUE
           /\ Attributes(train') = Attributes(train)]_vars

\* C10: when the detail request returns a success-classified body that is not
\* valid JSON, fetch() returns normally, phantom is true afterwards and no
\* other attribute changes.
C10_DecodeFailureAbsorbed ==
    [][(last'.op = "fetch" /\ last'.decode = "failed")
        => /\ last'.raised = None
           /\ train'.phantom = TRUE
           /\ Attributes(train') = Attributes(train)]_vars

\* C2: when the detail request succeeds and by_code fails on the payload's
\* destination code, fetch() returns normally, phantom stays false, the
\* destination is not assigned (an unset destination stays unset), and the
\* payload's other fields are applied: category by the sticky rule, departed,
\* cancelled, delay, last_detection_place, last_detection_time.
C2_LookupFailureSwallowed ==
    \A got \in SessionOutcomes :
        (WellFormed(got) /\ PayloadOf(got).idDestinazione \notin KnownStations)
        => LET p == PayloadOf(got)
               r == fetch(train, got)
               category == strip(upper(p.categoria[1]))
           IN  /\ r.raised = None
               /\ r.train.phantom = FALSE
               /\ r.train.destination = train.destination
               /\ r.train.category =
                    IF category # <<>> /\ train.category \in {None, Some(<<>>)}
                    THEN Some(category) ELSE train.category
               /\ r.train.departed = Some(~p.nonPartito)
               /\ r.train.cancelled = Some(p.provvedimento # 0)
               /\ r.train.delay = IF p.nonPartito THEN None ELSE Some(p.ritardo)
               /\ r.train.last_detection_place =
                    IF p.stazioneUltimoRilevamento = "--" THEN None
                    ELSE Some(p.stazioneUltimoRilevamento)
               /\ r.train.last_detection_time =
                    _to_datetime(p.oraUltimoRilevamento)

C2_Witness ==
    /\ last.op = "fetch" /\ last.lookup = "failed" /\ last.raised = None
    /\ train.destination = None /\ train.phantom = FALSE
    /\ train.delay = Some(5) /\ train.last_detection_place = Some("ROMA")

\* C3: in every reachable state, if departed is false then delay is unset.
C3_NotDepartedNoDelay == train.departed = Some(FALSE) => train.delay = None

\* C4: category is sticky: a fetch() leaves a non-empty category as it is, and
\* changes the category only when the train has no or an empty category and
\* the payload's uppercased, trimmed category is non-empty, which then
\* becomes the category.
C4_CategorySticky ==
    \A got \in SessionOutcomes :
        LET r == fetch(train, got)
        IN  /\ train.category \notin {None, Some(<<>>)}
                => r.train.category = train.category
            /\ r.train.category # train.category
                => /\ train.category \in {None, Some(<<>>)}
                   /\ RequestOf(got) = "ok" /\ DecodeOf(got) = "ok"
                   /\ "categoria" \in DOMAIN PayloadOf(got)
                   /\ PayloadOf(got).categoria # None
                   /\ strip(upper(PayloadOf(got).categoria[1])) # <<>>
                   /\ r.train.category =
                        Some(strip(upper(PayloadOf(got).categoria[1])))

\* a fetch() has returned and the train has the category of a payload (the
\* listings of the model carry no "R")
C4_Witness ==
    /\ last.op = "fetch" /\ last.raised = None /\ last.lookup = "ok"
    /\ train.category = Some(<<"R">>)

(***************************************************************************)
(* One ViaggiaTrenoAPI._raw_request call after another                     *)
(***************************************************************************)
TextChars == {"E", "r", "o"}

\* what the server may answer to one attempt
RequestAnswers ==
    [status_code : {200, 404, 403, 503},
     text : [chars : SeqsUpTo(TextChars, MaxTextLen), json : {None}]]

\* the requests the scraper makes (api.py:123, train.py:83-88)
Requests ==
    {RequestUrl("partenze", <<"S0", "now">>),
     RequestUrl("andamentoTreno", <<"S0", ToString(100), "midnight">>)}

InitRequest ==
    /\ train = __init__(100, by_code("S0").value[1])
    /\ last = Constructed("__init__")
    /\ call = Idle
    /\ pool = NoPool
    /\ session = NoSession

\* api.py:65-68, session.get is called: the call gets its own Retry object
StartRequest ==
    /\ call.pc = "idle"
    /\ \E url \in Requests :
        call' = [Idle EXCEPT !.pc = "sending", !.url = url]
    /\ UNCHANGED <<train, last, pool, session>>

\* the server answers an attempt.  A status of status_forcelist is retried
\* until the Retry object is exhausted, and then session.get raises
\* RetryError; any other response is returned to _raw_request (api.py:70-77)
AttemptOf(answers) ==
    /\ call.pc = "sending"
    /\ \E answer \in answers :
        LET retries == IncrementStatus(call.retries)
        IN  call' =
              IF answer.status_code \in status_forcelist
              THEN IF is_exhausted(retries)
                   THEN [call EXCEPT !.pc = "done", !.retries = retries,
                                     !.attempts = @ + 1,
                                     !.answer = Some(answer),
                                     !.result = Some(Raised("RetryError"))]
                   ELSE [call EXCEPT !.retries = retries, !.attempts = @ + 1]
              ELSE [call EXCEPT !.pc = "done", !.attempts = @ + 1,
                                !.answer = Some(answer), !.returned = TRUE,
                                !.result = Some(_raw_request(
                                              Response(call.url, answer)))]
    /\ UNCHANGED <<train, last, pool, session>>

Attempt == AttemptOf(RequestAnswers)

\* an attempt ends in a read error; when the Retry object is exhausted
\* session.get raises ConnectionError
ReadError ==
    /\ call.pc = "sending"
    /\ LET retries == IncrementRead(call.retries)
       IN  call' =
             IF is_exhausted(retries)
             THEN [call EXCEPT !.pc = "done", !.retries = retries,
                               !.attempts = @ + 1,
                               !.result = Some(Raised("ConnectionError"))]
             ELSE [call EXCEPT !.retries = retries, !.attempts = @ + 1]
    /\ UNCHANGED <<train, last, pool, session>>

\* the call is over, the next one can start
Finish ==
    /\ call.pc = "done"
    /\ call' = Idle
    /\ UNCHANGED <<train, last, pool, session>>

NextRequest == StartRequest \/ Attempt \/ ReadError \/ Finish

SpecRequest == InitRequest /\ [][NextRequest]_vars

\* the same calls when the bodies are an empty one and one with the marker:
\* the retry policy looks at the status only
SampleAnswers ==
    [status_code : {200, 404, 403, 503},
     text : [chars : {<<>>, ErrorMarker}, json : {None}]]

AttemptSampled == AttemptOf(SampleAnswers)

NextRetry == StartRequest \/ AttemptSampled \/ ReadError \/ Finish

SpecRetry == InitRequest /\ [][NextRetry]_vars

\* an attempt in progress is answered or fails, it does not hang
SpecRetryFair == SpecRetry /\ WF_vars(AttemptSampled \/ ReadError)

(***************************************************************************)
(* Properties of the request operation                                     *)
(***************************************************************************)
\* the call ended because every attempt was answered with a status of
\* status_forcelist until the Retry object was exhausted
StatusExhausted ==
    /\ call.pc = "done" /\ ~call.returned
    /\ call.retries.read = RetryRead
    /\ is_exhausted(call.retries)

C8_ExhaustionRaisesBadRequest ==
    StatusExhausted
    => /\ call.result[1].raised = Some("BadRequestException")
       /\ call.result[1].url = call.url
       /\ call.result[1].status_code = call.answer[1].status_code
       /\ call.result[1].response = call.answer[1].text

\* the attempts of a call stay within one first attempt plus the retries the
\* budgets allow, and a call whose attempts were all answered with a
\* retryable status made RetryStatus + 1 of them and failed
WithinBudget ==
    /\ call.attempts <= RetryTotal + 1
    /\ RetryStatus - call.retries.status <= RetryStatus + 1
    /\ RetryRead - call.retries.read <= RetryRead + 1
    /\ call.attempts =
         (RetryStatus - call.retries.status) + (RetryRead - call.retries.read)
         + (IF call.returned THEN 1 ELSE 0)
    /\ StatusExhausted
         => /\ call.attempts > 1
            /\ call.attempts = RetryStatus + 1
            /\ call.result[1].raised # None

\* C9: a call makes no more attempts than its budgets allow (the first
\* attempt plus at most 10 retries, of which at most 10 for a retryable
\* status and 5 for a read error); answered with a retryable status every
\* time it makes more than one attempt and fails; and every call terminates.
C9_BoundedRetries ==
    /\ []WithinBudget
    /\ (call.pc = "sending") ~> (call.pc = "done")

\* a call has given up after eleven attempts answered with a retryable status
C9_Witness ==
    /\ StatusExhausted
    /\ call.attempts = 11
    /\ call.result[1].raised = Some("RetryError")

(***************************************************************************)
(* Further properties of Train                                             *)
(***************************************************************************)
\* C12: a Train's identity never changes: no fetch(), whatever its outcome,
\* changes number or origin, which therefore stay as given at construction.
C12_IdentityKept ==
    [][train'.number = train.number /\ train'.origin = train.origin]_vars

\* a fetch() has resolved a destination and the identity is the
\* constructor's
C12_Witness ==
    /\ last.op = "fetch" /\ last.raised = None
    /\ train.destination = Some([code |-> "S1"])
    /\ train.number = 100 /\ train.origin = [code |-> "S0"]

\* C13: constructing a Train from a listing record whose codOrigine resolves
\* yields number = numeroTreno, origin = the resolved station, departed =
\* not nonPartito, cancelled = (provvedimento != 0), category = the
\* uppercased and trimmed categoriaDescrizione, phantom false, and
\* destination, delay, last_detection_place, last_detection_time unset.
C13_ListedTrain ==
    /\ \A train_data \in ListingRecords :
        train_data.codOrigine \in KnownStations
        => LET made == _from_station_departures_arrivals(train_data)
           IN  /\ made.raised = None
               /\ made.value[1] =
                    [number |-> train_data.numeroTreno,
                     origin |-> [code |-> train_data.codOrigine],
                     destination |-> None,
                     category |-> Some(strip(upper(train_data.categoriaDescrizione))),
                     departed |-> Some(train_data.nonPartito = FALSE),
                     cancelled |-> Some(~(train_data.provvedimento = 0)),
                     delay |-> None, last_detection_place |-> None,
                     last_detection_time |-> None, phantom |-> FALSE]
    /\ last.op = "_from_station_departures_arrivals"
        => /\ train.phantom = FALSE /\ train.destination = None
           /\ train.delay = None /\ train.last_detection_place = None
           /\ train.last_detection_time = None
           /\ train.category # None /\ train.category[1] = strip(upper(train.category[1]))
           /\ train.departed \in {Some(TRUE), Some(FALSE)}
           /\ train.cancelled \in {Some(TRUE), Some(FALSE)}

\* a train fresh from a listing record with category "I", departed, not
\* cancelled
C13_Witness ==
    /\ last.op = "_from_station_departures_arrivals"
    /\ train.category = Some(<<"I">>)
    /\ train.departed = Some(TRUE) /\ train.cancelled = Some(FALSE)
    /\ train.destination = None /\ train.phantom = FALSE


\* C16: after a fetch() that returns, last_detection_place is unset when the
\* payload's stazioneUltimoRilevamento is "--", whatever place was stored
\* before, and is the payload's value otherwise.
C16_PlaceSentinel ==
    \A got \in SessionOutcomes :
        WellFormed(got)
        => LET r == fetch(train, got)
               place == PayloadOf(got).stazioneUltimoRilevamento
           IN  /\ r.raised = None
               /\ place = "--" => r.train.last_detection_place = None
               /\ place # "--" => r.train.last_detection_place = Some(place)

\* a fetch() has returned and left no place, with a detection time
C16_Witness ==
    /\ last.op = "fetch" /\ last.raised = None
    /\ train.last_detection_place = None
    /\ train.last_detection_time # None

\* C17: whenever a fetch() call ends by raising an exception, no attribute of
\* the Train differs from its value before the call.
C17_RaiseChangesNothing ==
    [][(last'.op = "fetch" /\ last'.raised # None) => train' = train]_vars

\* C18: a fetch() that returns is idempotent: a second fetch() with the same
\* response and the same destination lookup returns too and leaves the train
\* as the first one left it.
C18_Idempotent ==
    \A got \in SessionOutcomes :
        WellFormed(got)
        => LET once == fetch(train, got)
               twice == fetch(once.train, got)
           IN  /\ once.raised = None
               /\ twice.raised = None
               /\ twice.train = once.train
               /\ twice.lookup = once.lookup

\* a fetch() has returned on a departed train and stored the payload's delay
C18_Witness ==
    /\ last.op = "fetch" /\ last.raised = None /\ last.lookup = "ok"
    /\ train.departed = Some(TRUE) /\ train.delay = Some(5)
    /\ train.last_detection_place = Some("ROMA")

\* C19: a destination, once set, is never reset to unset: a fetch() whose
\* request fails or whose destination lookup fails keeps the destination it
\* found, and on a lookup failure still overwrites departed, cancelled,
\* delay, last_detection_place and last_detection_time from the payload.
C19_DestinationKept ==
    \A got \in SessionOutcomes :
        train.destination # None
        => LET r == fetch(train, got)
           IN  /\ r.train.destination # None
               /\ r.lookup # "ok" => r.train.destination = train.destination
               /\ (WellFormed(got) /\ r.lookup = "failed")
                    => LET p == PayloadOf(got)
                       IN  /\ r.raised = None
                           /\ r.train.departed = Some(~p.nonPartito)
                           /\ r.train.cancelled = Some(p.provvedimento # 0)
                           /\ r.train.delay =
                                IF p.nonPartito THEN None ELSE Some(p.ritardo)
                           /\ r.train.last_detection_place =
                                IF p.stazioneUltimoRilevamento = "--" THEN None
                                ELSE Some(p.stazioneUltimoRilevamento)
                           /\ r.train.last_detection_time =
                                _to_datetime(p.oraUltimoRilevamento)

\* a train with a destination has been through a fetch() whose lookup failed
C19_Witness ==
    /\ last.op = "fetch" /\ last.lookup = "failed" /\ last.raised = None
    /\ train.destination = Some([code |-> "S1"])


(***************************************************************************)
(* Distinct Train instances fetched by concurrent workers.  A worker runs  *)
(* fetch() on its own instance one statement at a time; the statements of  *)
(* different workers interleave.                                           *)
(***************************************************************************)
Workers == {"w1", "w2"}

\* the instances handed to the workers
PoolTrains ==
    {__init__(100, by_code("S0").value[1])} \cup
    {_from_station_departures_arrivals(train_data).value[1] :
        train_data \in {d \in ListingRecords :
            /\ d.codOrigine = "S0" /\ d.provvedimento = 0
            /\ d.categoriaDescrizione \in {<<>>, <<"I">>}}}

\* the answers the workers get: every kind of failure, and the payloads of a
\* departed train with its destination known or unknown, complete or with
\* categoria null or provvedimento missing
PoolOutcomes ==
    {got \in SessionOutcomes :
        \/ got.raised = Some("RetryError")
        \/ /\ got.raised = None
           /\ got.value[1].text.json = None
           /\ got.value[1].text.chars = <<>>
        \/ /\ got.raised = None
           /\ got.value[1].status_code = 200
           /\ got.value[1].text.chars = <<>>
           /\ got.value[1].text.json # None
           /\ \E p \in DetectedPayloads :
                /\ p.nonPartito = FALSE /\ p.provvedimento = 1
                /\ p.categoria \in {None, Some(<<"r">>)}
                /\ got.value[1].text.json[1] \in {p, Without(p, "provvedimento")}}

\* the statements of train.py:96-120 in program order
Statements ==
    <<"destination", "category", "departed", "cancelled", "delay", "place",
      "time">>

StatementAfter(pc) ==
    IF pc = "time" THEN "done"
    ELSE Statements[(CHOOSE i \in 1..Len(Statements) : Statements[i] = pc) + 1]

Execute(pc, r, train_data) ==
    CASE pc = "destination" -> SetDestination(r, train_data)
      [] pc = "category" -> SetCategory(r, train_data)
      [] pc = "departed" -> SetDeparted(r, train_data)
      [] pc = "cancelled" -> SetCancelled(r, train_data)
      [] pc = "delay" -> SetDelay(r, train_data)
      [] pc = "place" -> SetLastDetectionPlace(r, train_data)
      [] pc = "time" -> SetLastDetectionTime(r, train_data)

\* attributes kept on the class, shared by every instance
StoreTrain_OnClass(trains, w, t) == [v \in DOMAIN trains |-> t]

\* train.py:36-48, 93-118: the attributes are assigned on self
StoreTrain(trains, w, t) == [trains EXCEPT ![w] = t]

InitPool ==
    /\ train = __init__(100, by_code("S0").value[1])
    /\ last = Constructed("__init__")
    /\ call = Idle
    /\ session = NoSession
    /\ \E trains \in [Workers -> PoolTrains] :
        pool = [trains |-> trains, initial |-> trains,
                workers |-> [w \in Workers |->
                    [pc |-> "request", got |-> None, raised |-> None,
                     lookup |-> "n/a"]]]

\* train.py:83-88, the worker's request is answered
PoolRequest(w) ==
    /\ pool.workers[w].pc = "request"
    /\ \E got \in PoolOutcomes :
        LET raw_details ==
              IF got.raised # None THEN Raised(got.raised[1])
              ELSE _raw_request(Response(FetchUrl(pool.trains[w]), got.value[1]))
        IN  pool' = [pool EXCEPT
                !.workers[w].got = Some(got),
                !.workers[w].raised = raw_details.raised,
                !.workers[w].pc =
                    IF raw_details.raised # None THEN "done" ELSE "decode"]
    /\ UNCHANGED <<train, last, call, session>>

\* train.py:90-94
PoolDecode(w) ==
    /\ pool.workers[w].pc = "decode"
    /\ LET raw_details ==
             _raw_request(Response(FetchUrl(pool.trains[w]),
                                   pool.workers[w].got[1].value[1]))
           decoded == _decode_json(raw_details.value[1])
       IN  pool' =
             IF decoded.raised = Some("BadRequestException")
             THEN [pool EXCEPT
                     !.trains = StoreTrain(@, w,
                                   [pool.trains[w] EXCEPT !.phantom = TRUE]),
                     !.workers[w].pc = "done"]
             ELSE IF decoded.raised # None
             THEN [pool EXCEPT !.workers[w].raised = decoded.raised,
                               !.workers[w].pc = "done"]
             ELSE [pool EXCEPT !.workers[w].pc = Statements[1]]
    /\ UNCHANGED <<train, last, call, session>>

\* one statement of train.py:96-120
PoolStatement(w) ==
    /\ pool.workers[w].pc \notin {"request", "decode", "done"}
    /\ LET train_data == pool.workers[w].got[1].value[1].text.json[1]
           r == Execute(pool.workers[w].pc,
                        Running(pool.trains[w], pool.workers[w].lookup),
                        train_data)
       IN  pool' = [pool EXCEPT
               !.trains = StoreTrain(@, w, r.train),
               !.workers[w].lookup = r.lookup,
               !.workers[w].raised = r.raised,
               !.workers[w].pc =
                   IF r.raised # None THEN "done" ELSE StatementAfter(@)]
    /\ UNCHANGED <<train, last, call, session>>

NextPool ==
    \E w \in Workers : PoolRequest(w) \/ PoolDecode(w) \/ PoolStatement(w)

SpecPool == InitPool /\ [][NextPool]_vars

\* what fetch() alone makes of the worker's train and answer
Alone(w) == fetch(pool.initial[w], pool.workers[w].got[1])

\* C14: fetch() calls on distinct trains may interleave arbitrarily: a step
\* of one worker changes no other worker's train, and when a worker's
\* fetch() has ended its train and its outcome are those of the same fetch()
\* run alone on the train with the same answer.
C14_Isolated ==
    /\ [](\A w \in Workers :
            pool.workers[w].pc = "done"
            => /\ pool.trains[w] = Alone(w).train
               /\ pool.workers[w].raised = Alone(w).raised)
    /\ [][\A w \in Workers :
            pool'.workers[w] = pool.workers[w]
            => pool'.trains[w] = pool.trains[w]]_vars

\* both workers are done, one fetch() returned with a destination, the other
\* raised after it had assigned its own
C14_Witness ==
    /\ \A w \in Workers : pool.workers[w].pc = "done"
    /\ pool.workers["w1"].raised = None
    /\ pool.trains["w1"].delay = Some(5)
    /\ pool.workers["w2"].raised = Some("KeyError")
    /\ pool.trains["w2"].destination # pool.initial["w2"].destination


(***************************************************************************)
(* Concurrent calls through the shared session.  The session's adapter     *)
(* holds one Retry object; every call takes its budget from it and counts  *)
(* its failed attempts down in an object of its own.                       *)
(***************************************************************************)
Callers == {"c1", "c2"}

NoCall == [pc |-> "idle", retries |-> max_retries, failed |-> 0, result |-> None]

\* the statuses the retry policy tells apart: success, a client error, a
\* status of status_forcelist
SessionStatuses == {200, 404, 503}

\* Retry.increment counting down in the adapter's own object
Adapter_InPlace(shared, retries) == retries

\* api.py:39-47: the adapter keeps the Retry object it was given;
\* Retry.increment returns a new object to the call
Adapter(shared, retries) == shared

InitSession ==
    /\ train = __init__(100, by_code("S0").value[1])
    /\ last = Constructed("__init__")
    /\ call = Idle
    /\ pool = NoPool
    /\ session = [max_retries |-> max_retries,
                  calls |-> [c \in Callers |-> NoCall]]

\* api.py:65-68, a caller calls session.get
SessionGet(c) ==
    /\ session.calls[c].pc = "idle"
    /\ session' = [session EXCEPT
            !.calls[c] = [NoCall EXCEPT !.pc = "sending",
                                        !.retries = session.max_retries]]
    /\ UNCHANGED <<train, last, call, pool>>

\* an attempt of the caller is answered
SessionAnswer(c) ==
    /\ session.calls[c].pc = "sending"
    /\ \E status_code \in SessionStatuses :
        LET retries == IncrementStatus(session.calls[c].retries)
        IN  session' =
              IF status_code \in status_forcelist
              THEN [session EXCEPT
                      !.max_retries = Adapter(@, retries),
                      !.calls[c].retries = retries,
                      !.calls[c].failed = @ + 1,
                      !.calls[c].pc =
                          IF is_exhausted(retries) THEN "done" ELSE @,
                      !.calls[c].result =
                          IF is_exhausted(retries)
                          THEN Some("RetryError") ELSE @]
              ELSE [session EXCEPT !.calls[c].pc = "done",
                                   !.calls[c].result = Some("Response")]
    /\ UNCHANGED <<train, last, call, pool>>

\* an attempt of the caller ends in a read error
SessionReadError(c) ==
    /\ session.calls[c].pc = "sending"
    /\ LET retries == IncrementRead(session.calls[c].retries)
       IN  session' = [session EXCEPT
              !.max_retries = Adapter(@, retries),
              !.calls[c].retries = retries,
              !.calls[c].failed = @ + 1,
              !.calls[c].pc = IF is_exhausted(retries) THEN "done" ELSE @,
              !.calls[c].result =
                  IF is_exhausted(retries) THEN Some("ConnectionError") ELSE @]
    /\ UNCHANGED <<train, last, call, pool>>

\* session.get is over for the caller, who can call again
SessionDone(c) ==
    /\ session.calls[c].pc = "done"
    /\ session' = [session EXCEPT !.calls[c] = NoCall]
    /\ UNCHANGED <<train, last, call, pool>>

NextSession ==
    \E c \in Callers :
        SessionGet(c) \/ SessionAnswer(c) \/ SessionReadError(c)
        \/ SessionDone(c)

SpecSession == InitSession /\ [][NextSession]_vars

\* C15: retry counters are per call: the budget a call has left is the full
\* budget less its own failed attempts, whatever the other calls through the
\* shared session consumed before it or consume beside it, and every call
\* starts with the full budget.
C15_PerCallBudget ==
    /\ [](\A c \in Callers :
            /\ session.calls[c].retries.total
                 = RetryTotal - session.calls[c].failed
            /\ (RetryStatus - session.calls[c].retries.status)
               + (RetryRead - session.calls[c].retries.read)
                 = session.calls[c].failed)
    /\ [][\A c \in Callers :
            (session.calls[c].pc = "idle" /\ session'.calls[c].pc = "sending")
            => session'.calls[c].retries = max_retries]_vars
    /\ [][\A c \in Callers :
            session'.calls[c].pc = session.calls[c].pc
            /\ session'.calls[c].failed = session.calls[c].failed
            => session'.calls[c].retries = session.calls[c].retries]_vars

\* one call has used its whole budget up while the other has just started
\* and has all of its own
C15_Witness ==
    /\ session.calls["c1"].pc = "done"
    /\ session.calls["c1"].result = Some("RetryError")
    /\ session.calls["c1"].failed = RetryTotal + 1
    /\ session.calls["c2"].pc = "sending"
    /\ session.calls["c2"].failed = 0
    /\ session.calls["c2"].retries = max_retries

====
